---------------------------- MODULE Spec2Model ----------------------------
(***************************************************************************)
(* The governance-proposal lifecycle engine, class ProposalWorkflow.        *)
(* The repository holds two implementations of the class:                   *)
(*   "workflow"  packages/plugin-forum-analyzer/src/proposal/workflow.ts    *)
(*   "part_004"  unnamed/part_004                                           *)
(* Every operation is an operator from the workflow state before the call   *)
(* to the outcome of the call (ok, the error thrown, the state after).      *)
(* Numbers that the code computes by a floating-point division are kept as  *)
(* a reduced fraction, with 0/0 the not-a-number value.                     *)
(***************************************************************************)
EXTENDS Integers, Sequences, FiniteSets, TLC

VARIABLES impl, config, state, now, last, entered, visited, snapshot, pending,
          twin

vars ==
    <<impl, config, state, now, last, entered, visited, snapshot, pending,
      twin>>

(* ------------------------------ bounds -------------------------------- *)

\* the clock runs over 0..MaxTime (days)
MaxTime == 1

\* at most MaxRecorded votes and comments are submitted to one workflow
MaxRecorded == 2

\* a caller writes at most MaxWrites times into the state object it was given
MaxWrites == 1

(* ------------------------------ values -------------------------------- *)

Impls == {"workflow", "part_004"}

ProposalStage ==
    {"draft", "temperature_check", "discussion", "final_proposal",
     "voting", "executed", "rejected"}

\* the stages that are a phase with a record of its own in the state
Phases == {"temperature_check", "discussion", "voting"}

\* the stages before the vote, in the order of the lifecycle
StageOrder == <<"draft", "temperature_check", "discussion", "final_proposal">>

\* an optional field: absent, or holding one value
None == <<>>
Some(x) == <<x>>
Has(o) == o # <<>>
The(o) == o[1]

\* a / b as the code's number division: 0 / 0 is NaN, kept as 0 over 0
RECURSIVE Gcd(_, _)
Gcd(a, b) == IF b = 0 THEN a ELSE Gcd(b, a % b)

NaN == [num |-> 0, den |-> 0]

Div(a, b) ==
    IF b = 0 THEN NaN
    ELSE [num |-> a \div Gcd(a, b), den |-> b \div Gcd(a, b)]

IsNaN(r) == r.den = 0

\* r >= t and r > t on numbers; every comparison with NaN is false
GreaterEq(r, t) ==
    /\ ~IsNaN(r) /\ ~IsNaN(t)
    /\ r.num * t.den >= t.num * r.den

Greater(r, t) ==
    /\ ~IsNaN(r) /\ ~IsNaN(t)
    /\ r.num * t.den > t.num * r.den

Number(n) == Div(n, 1)
Half == Div(1, 2)
ThreeTenths == Div(3, 10)

(* ------------------------------ inputs -------------------------------- *)

Voter == "alice"

Vote(choice, weight) == [voter |-> Voter, choice |-> choice, weight |-> weight]

\* the ballots cast in a temperature check: every label of the poll, a
\* heavier ballot, and ballots whose weights tie
TemperatureCheckVotes ==
    { Vote("Strongly Support", 1), Vote("Strongly Support", 2),
      Vote("Support with Minor Changes", 1),
      Vote("Need More Discussion", 1), Vote("Do Not Support", 1) }

\* the ballots cast in the vote: the counted label and another one, with
\* and without weight
VotingChoices == {"Support", "Against"}
Weights == {0, 1, 2}

VotingVotes == {Vote(c, w) : c \in VotingChoices, w \in Weights}

Authors == {"carol"}
Contents == {"lgtm"}

\* the configurations a workflow is constructed with
Configs ==
    { [temperatureCheckDuration |-> 0, discussionPeriod |-> 1,
       votingPeriod |-> 0, minimumQuorum |-> 2, approvalThreshold |-> Half,
       governanceConfig |-> None],
      [temperatureCheckDuration |-> 1, discussionPeriod |-> 0,
       votingPeriod |-> 1, minimumQuorum |-> 0,
       approvalThreshold |-> Number(0), governanceConfig |-> None] }

\* configurations with the optional governanceConfig set
GovernanceConfigs ==
    { [temperatureCheckDuration |-> 1, discussionPeriod |-> 1,
       votingPeriod |-> 0, minimumQuorum |-> 1, approvalThreshold |-> Half,
       governanceConfig |->
           Some([criticalProposalThreshold |-> Div(4, 5),
                 extendedVotingPeriod |-> 1, highQuorum |-> 2])] }

(* --------------------------- the operations --------------------------- *)

\* the outcome of a call: it returned, it threw at its stage check (the
\* check that the phase it works on is the active one), or it threw later
Ok(st) == [ok |-> TRUE, inStage |-> TRUE, err |-> "", st |-> st]
Refuse(st, msg) == [ok |-> FALSE, inStage |-> FALSE, err |-> msg, st |-> st]
Throw(st, msg) == [ok |-> FALSE, inStage |-> TRUE, err |-> msg, st |-> st]

RECURSIVE SumWeights(_)
SumWeights(votes) ==
    IF votes = <<>> THEN 0
    ELSE Head(votes).weight + SumWeights(Tail(votes))

IsSupport(v) ==
    v.choice = "Strongly Support" \/ v.choice = "Support with Minor Changes"
IsOpposition(v) == v.choice = "Do Not Support"
IsNeedsDiscussion(v) == v.choice = "Need More Discussion"
\* the support label compared without regard to case
IsVoteSupport_IgnoresCase(v) == v.choice \in {"Support", "support"}

IsVoteSupport(v) == v.choice = "Support"

\* the draft is kept as the two things a workflow is told about it: whether
\* it has a poll, and whether its producer flagged it critical
constructor(poll, critical) ==
    [stage |-> "draft", poll |-> poll, critical |-> critical,
     temperatureCheck |-> None, discussion |-> None, voting |-> None]

\* startTemperatureCheck without its check of the poll
startTemperatureCheck_NoPollCheck(i, cfg, st, t) ==
    IF st.stage # "draft"
    THEN Refuse(st, "Temperature check can only be started from draft stage")
    ELSE Ok([st EXCEPT
             !.stage = "temperature_check",
             !.temperatureCheck =
                 Some([votes |-> <<>>,
                       endTime |-> t + cfg.temperatureCheckDuration,
                       result |-> None])])

startTemperatureCheck(i, cfg, st, t) ==
    IF st.stage # "draft"
    THEN Refuse(st, "Temperature check can only be started from draft stage")
    ELSE IF ~st.poll
    THEN Throw(st, "Proposal does not have a temperature check poll configured")
    ELSE Ok([st EXCEPT
             !.stage = "temperature_check",
             !.temperatureCheck =
                 Some([votes |-> <<>>,
                       endTime |-> t + cfg.temperatureCheckDuration,
                       result |-> None])])

\* workflow.ts checks the stage, then the record, and no end time;
\* part_004 checks the stage and the record together, then the end time
submitTemperatureCheckVote(i, cfg, st, t, vote) ==
    IF i = "workflow" /\ st.stage # "temperature_check"
    THEN Refuse(st, "Votes can only be submitted during temperature check phase")
    ELSE IF i = "workflow" /\ ~Has(st.temperatureCheck)
    THEN Refuse(st, "Temperature check state not initialized")
    ELSE IF i = "part_004"
            /\ (st.stage # "temperature_check" \/ ~Has(st.temperatureCheck))
    THEN Refuse(st, "Temperature check is not active")
    ELSE IF i = "part_004" /\ t > The(st.temperatureCheck).endTime
    THEN Throw(st, "Temperature check period has ended")
    ELSE Ok([st EXCEPT !.temperatureCheck[1].votes = Append(@, vote)])

\* startDiscussion's body after its guard
OpenDiscussion(cfg, st, t) ==
    [st EXCEPT
     !.stage = "discussion",
     !.discussion =
         Some([comments |-> <<>>, endTime |-> t + cfg.discussionPeriod])]

\* only workflow.ts checks the stage
startDiscussion(i, cfg, st, t) ==
    IF i = "workflow" /\ st.stage # "temperature_check"
    THEN Refuse(st, "Discussion can only be started after temperature check")
    ELSE Ok(OpenDiscussion(cfg, st, t))

\* the three fractions finalizeTemperatureCheck stores: of the ballots in
\* workflow.ts, of the weights in part_004
TemperatureCheckResult(i, votes) ==
    IF i = "workflow"
    THEN [support |-> Div(Len(SelectSeq(votes, IsSupport)), Len(votes)),
          opposition |-> Div(Len(SelectSeq(votes, IsOpposition)), Len(votes)),
          needsDiscussion |->
              Div(Len(SelectSeq(votes, IsNeedsDiscussion)), Len(votes))]
    ELSE [support |->
              Div(SumWeights(SelectSeq(votes, IsSupport)), SumWeights(votes)),
          opposition |->
              Div(SumWeights(SelectSeq(votes, IsOpposition)), SumWeights(votes)),
          needsDiscussion |->
              Div(SumWeights(SelectSeq(votes, IsNeedsDiscussion)),
                  SumWeights(votes))]

\* workflow.ts sets the stage itself, by a two-way rule; part_004 calls
\* startDiscussion, or returns to draft, or rejects
finalizeTemperatureCheck(i, cfg, st, t) ==
    IF i = "workflow" /\ st.stage # "temperature_check"
    THEN Refuse(st, "Can only finalize from temperature check phase")
    ELSE IF i = "workflow" /\ ~Has(st.temperatureCheck)
    THEN Refuse(st, "Temperature check state not initialized")
    ELSE IF i = "part_004"
            /\ (st.stage # "temperature_check" \/ ~Has(st.temperatureCheck))
    THEN Refuse(st, "Temperature check is not active")
    ELSE LET result == TemperatureCheckResult(i, The(st.temperatureCheck).votes)
             stored == [st EXCEPT !.temperatureCheck[1].result = Some(result)]
         IN  IF i = "workflow"
             THEN Ok([stored EXCEPT
                      !.stage = IF Greater(result.support, Half)
                                THEN "discussion" ELSE "rejected"])
             ELSE IF Greater(result.support, Half)
             THEN Ok(startDiscussion(i, cfg, stored, t).st)
             ELSE IF Greater(result.needsDiscussion, ThreeTenths)
             THEN Ok([stored EXCEPT !.stage = "draft"])
             ELSE Ok([stored EXCEPT !.stage = "rejected"])

\* addDiscussionComment without its check of the end time
addDiscussionComment_NoEndTime(i, cfg, st, t, author, content) ==
    IF st.stage # "discussion" \/ ~Has(st.discussion)
    THEN Refuse(st, "Discussion period is not active")
    ELSE Ok([st EXCEPT
             !.discussion[1].comments =
                 Append(@, [author |-> author, content |-> content,
                            timestamp |-> t])])

addDiscussionComment(i, cfg, st, t, author, content) ==
    IF st.stage # "discussion" \/ ~Has(st.discussion)
    THEN Refuse(st, "Discussion period is not active")
    ELSE IF t > The(st.discussion).endTime
    THEN Throw(st, "Discussion period has ended")
    ELSE Ok([st EXCEPT
             !.discussion[1].comments =
                 Append(@, [author |-> author, content |-> content,
                            timestamp |-> t])])

\* finalizeDiscussion with addDiscussionComment's check of the record and a
\* wait for the end of the period
finalizeDiscussion_WaitsForEnd(i, cfg, st, t) ==
    IF st.stage # "discussion" \/ ~Has(st.discussion)
    THEN Refuse(st, "Discussion is not active")
    ELSE IF t <= The(st.discussion).endTime
    THEN Throw(st, "Discussion period has not ended")
    ELSE Ok([st EXCEPT !.stage = "final_proposal"])

finalizeDiscussion(i, cfg, st, t) ==
    IF st.stage # "discussion"
    THEN Refuse(st, "Discussion is not active")
    ELSE Ok([st EXCEPT !.stage = "final_proposal"])

\* startVoting with the votingPeriod of the file's own DEFAULT_CONFIG in the
\* place of the configured one
startVoting_DefaultPeriod(i, cfg, st, t) ==
    IF st.stage # "final_proposal"
    THEN Refuse(st, "Proposal must be finalized before voting")
    ELSE Ok([st EXCEPT
             !.stage = "voting",
             !.voting =
                 Some([votes |-> <<>>, startTime |-> t,
                       endTime |-> t + (IF i = "workflow" THEN 7 ELSE 5),
                       result |-> None])])

startVoting(i, cfg, st, t) ==
    IF st.stage # "final_proposal"
    THEN Refuse(st, "Proposal must be finalized before voting")
    ELSE Ok([st EXCEPT
             !.stage = "voting",
             !.voting =
                 Some([votes |-> <<>>, startTime |-> t,
                       endTime |-> t + cfg.votingPeriod, result |-> None])])

\* submitVote without its check of the end time
submitVote_NoEndTime(i, cfg, st, t, vote) ==
    IF st.stage # "voting" \/ ~Has(st.voting)
    THEN Refuse(st, "Voting is not active")
    ELSE Ok([st EXCEPT !.voting[1].votes = Append(@, vote)])

submitVote(i, cfg, st, t, vote) ==
    IF st.stage # "voting" \/ ~Has(st.voting)
    THEN Refuse(st, "Voting is not active")
    ELSE IF t > The(st.voting).endTime
    THEN Throw(st, "Voting period has ended")
    ELSE Ok([st EXCEPT !.voting[1].votes = Append(@, vote)])

\* finalizeVoting's result with approved decided by the ratio alone
VotingResult_IgnoresQuorum(cfg, votes) ==
    LET totalWeight == SumWeights(votes)
        supportWeight == SumWeights(SelectSeq(votes, IsVoteSupport))
        support == Div(supportWeight, totalWeight)
    IN  [approved |-> GreaterEq(support, cfg.approvalThreshold),
         support |-> support,
         quorumReached |-> totalWeight >= cfg.minimumQuorum]

\* the result finalizeVoting stores
VotingResult(cfg, votes) ==
    LET totalWeight == SumWeights(votes)
        supportWeight == SumWeights(SelectSeq(votes, IsVoteSupport))
        support == Div(supportWeight, totalWeight)
        quorumReached == totalWeight >= cfg.minimumQuorum
    IN  [approved |-> quorumReached /\ GreaterEq(support, cfg.approvalThreshold),
         support |-> support,
         quorumReached |-> quorumReached]

\* finalizeVoting with submitVote's check of the end time
finalizeVoting_ChecksEndTime(i, cfg, st, t) ==
    IF st.stage # "voting" \/ ~Has(st.voting)
    THEN Refuse(st, "Voting is not active")
    ELSE IF t > The(st.voting).endTime
    THEN Throw(st, "Voting period has ended")
    ELSE LET result == VotingResult(cfg, The(st.voting).votes)
         IN  Ok([st EXCEPT
                 !.voting[1].result = Some(result),
                 !.stage = IF result.approved THEN "executed" ELSE "rejected"])

finalizeVoting(i, cfg, st, t) ==
    IF st.stage # "voting" \/ ~Has(st.voting)
    THEN Refuse(st, "Voting is not active")
    ELSE LET result == VotingResult(cfg, The(st.voting).votes)
         IN  Ok([st EXCEPT
                 !.voting[1].result = Some(result),
                 !.stage = IF result.approved THEN "executed" ELSE "rejected"])

(* --------------------------- the state machine ------------------------ *)

\* the votes and comments recorded so far
Recorded(st) ==
    (IF Has(st.temperatureCheck) THEN Len(The(st.temperatureCheck).votes) ELSE 0)
    + (IF Has(st.discussion) THEN Len(The(st.discussion).comments) ELSE 0)
    + (IF Has(st.voting) THEN Len(The(st.voting).votes) ELSE 0)

\* the bound on the run: a call that records one more vote or comment is
\* made only below MaxRecorded; a call that fails is always made
Accepts(r) == r.ok => Recorded(state) < MaxRecorded

NoArg == <<>>

\* the objects of the state that a call replaces by new ones: a start*
\* operation assigns a new state object holding a new phase record (part_004
\* starts the discussion inside finalizeTemperatureCheck); every other
\* operation writes into the objects that are there
Replaced(i, op, r) ==
    IF ~r.ok THEN {}
    ELSE IF op = "startTemperatureCheck" THEN {"state", "temperatureCheck"}
    ELSE IF op = "startDiscussion" THEN {"state", "discussion"}
    ELSE IF op = "finalizeTemperatureCheck" /\ i = "part_004"
            /\ r.st.stage = "discussion"
    THEN {"state", "discussion"}
    ELSE IF op = "startVoting" THEN {"state", "voting"}
    ELSE {}

\* the object getState returned to a caller, as the objects it still shares
\* with the workflow, and the number of times the caller wrote into it
NoSnapshot == [held |-> FALSE, shared |-> {}, writes |-> 0]

\* `visited` stages of StageOrder have been gone through one after another;
\* the count after the stage has become `stage`
Advance(k, stage) ==
    IF k < Len(StageOrder) /\ stage = StageOrder[k + 1] THEN k + 1 ELSE k

\* the calls that are suspended at an await, for a caller that makes its
\* calls without awaiting them (concurrent); a caller that awaits every call
\* has none
NoPending == [concurrent |-> FALSE, calls |-> {}]

\* the call reaches an await: the only one is `await this.startDiscussion()`
\* in part_004's finalizeTemperatureCheck, and startDiscussion, which has no
\* await itself, has run to its end when the caller is suspended
Suspends(i, op, r) ==
    /\ i = "part_004" /\ op = "finalizeTemperatureCheck"
    /\ r.ok /\ r.st.stage = "discussion"

\* what is run as the continuation of the suspended startDiscussion: itself,
\* a second time
AfterAwait_OpensDiscussion(i, op, cfg, st, t) == OpenDiscussion(cfg, st, t)

\* what the call runs when it is resumed: nothing follows the await
AfterAwait(i, op, cfg, st, t) == st

\* the outcome of the call of `op` with the arguments `arg` on the state `st`
Apply(i, op, arg, cfg, st, t) ==
    CASE op = "startTemperatureCheck" -> startTemperatureCheck(i, cfg, st, t)
      [] op = "submitTemperatureCheckVote" ->
             submitTemperatureCheckVote(i, cfg, st, t, arg[1])
      [] op = "finalizeTemperatureCheck" ->
             finalizeTemperatureCheck(i, cfg, st, t)
      [] op = "startDiscussion" -> startDiscussion(i, cfg, st, t)
      [] op = "addDiscussionComment" ->
             addDiscussionComment(i, cfg, st, t, arg[1], arg[2])
      [] op = "finalizeDiscussion" -> finalizeDiscussion(i, cfg, st, t)
      [] op = "startVoting" -> startVoting(i, cfg, st, t)
      [] op = "submitVote" -> submitVote(i, cfg, st, t, arg[1])
      [] op = "finalizeVoting" -> finalizeVoting(i, cfg, st, t)

\* the call of `op` with outcome `r`; `last` keeps the last call that was
\* made in its own stage, with its argument when it returned; `entered`
\* keeps the phases the workflow has been in, and `visited` how far it went
\* through StageOrder; `twin`, when there is one, is a workflow of part_004
\* that is given the same call at the same time
Call(op, arg, r) ==
    /\ state' = IF Suspends(impl, op, r) /\ ~pending.concurrent
                THEN AfterAwait(impl, op, config, r.st, now)
                ELSE r.st
    /\ pending' = IF Suspends(impl, op, r) /\ pending.concurrent
                  THEN [pending EXCEPT !.calls = @ \cup {op}]
                  ELSE pending
    /\ last' = IF r.inStage
               THEN [op |-> op, ok |-> r.ok, err |-> r.err,
                     arg |-> IF r.ok THEN arg ELSE NoArg]
               ELSE last
    /\ entered' = entered \cup ({r.st.stage} \cap Phases)
    /\ visited' = Advance(visited, r.st.stage)
    /\ snapshot' = [snapshot EXCEPT !.shared = @ \ Replaced(impl, op, r)]
    /\ twin' = IF Has(twin)
               THEN Some(Apply("part_004", op, arg, config, The(twin), now).st)
               ELSE twin
    /\ UNCHANGED <<impl, config, now>>

Init ==
    /\ impl \in Impls
    /\ config \in Configs
    /\ \E poll \in BOOLEAN : state = constructor(poll, FALSE)
    /\ now = 0
    /\ last = [op |-> "constructor", ok |-> TRUE, err |-> "", arg |-> NoArg]
    /\ entered = {}
    /\ visited = Advance(0, "draft")
    /\ snapshot = NoSnapshot
    /\ pending = NoPending
    /\ twin = None

StartTemperatureCheck ==
    Call("startTemperatureCheck", NoArg,
         startTemperatureCheck(impl, config, state, now))

SubmitTemperatureCheckVote ==
    \E vote \in TemperatureCheckVotes :
        LET r == submitTemperatureCheckVote(impl, config, state, now, vote)
        IN  /\ Accepts(r)
            /\ Call("submitTemperatureCheckVote", <<vote>>, r)

FinalizeTemperatureCheck ==
    Call("finalizeTemperatureCheck", NoArg,
         finalizeTemperatureCheck(impl, config, state, now))

StartDiscussion ==
    Call("startDiscussion", NoArg, startDiscussion(impl, config, state, now))

AddDiscussionComment ==
    \E author \in Authors, content \in Contents :
        LET r == addDiscussionComment(impl, config, state, now, author, content)
        IN  /\ Accepts(r)
            /\ Call("addDiscussionComment", <<author, content>>, r)

FinalizeDiscussion ==
    Call("finalizeDiscussion", NoArg,
         finalizeDiscussion(impl, config, state, now))

StartVoting ==
    Call("startVoting", NoArg, startVoting(impl, config, state, now))

SubmitVote ==
    \E vote \in VotingVotes :
        LET r == submitVote(impl, config, state, now, vote)
        IN  /\ Accepts(r)
            /\ Call("submitVote", <<vote>>, r)

FinalizeVoting ==
    Call("finalizeVoting", NoArg, finalizeVoting(impl, config, state, now))

\* time passes between two calls
Tick ==
    /\ now < MaxTime
    /\ now' = now + 1
    /\ UNCHANGED <<impl, config, state, last, entered, visited, snapshot,
                   pending, twin>>

Next ==
    \/ StartTemperatureCheck
    \/ SubmitTemperatureCheckVote
    \/ FinalizeTemperatureCheck
    \/ StartDiscussion
    \/ AddDiscussionComment
    \/ FinalizeDiscussion
    \/ StartVoting
    \/ SubmitVote
    \/ FinalizeVoting
    \/ Tick

Spec == Init /\ [][Next]_vars

\* workflows constructed with a governanceConfig, on drafts that are flagged
\* critical and drafts that are not
InitGovernance ==
    /\ impl \in Impls
    /\ config \in GovernanceConfigs
    /\ \E poll \in BOOLEAN, critical \in BOOLEAN :
           state = constructor(poll, critical)
    /\ now = 0
    /\ last = [op |-> "constructor", ok |-> TRUE, err |-> "", arg |-> NoArg]
    /\ entered = {}
    /\ visited = Advance(0, "draft")
    /\ snapshot = NoSnapshot
    /\ pending = NoPending
    /\ twin = None

SpecGovernance == InitGovernance /\ [][Next]_vars

\* getState returns this.state itself: the state object and the phase
\* records it refers to are the workflow's own
GetState ==
    /\ snapshot' =
           [snapshot EXCEPT
            !.held = TRUE,
            !.shared = {"state"}
                       \cup {p \in {"temperatureCheck", "discussion", "voting"} :
                                 Has(state[p])}]
    /\ UNCHANGED <<impl, config, state, now, last, entered, visited, pending,
                   twin>>

\* the caller writes into the object it was given; `st` is the workflow's
\* state after a write into an object `part` that is still shared
CallerWrite(part, st) ==
    /\ snapshot.held
    /\ snapshot.writes < MaxWrites
    /\ snapshot' = [snapshot EXCEPT !.writes = @ + 1]
    /\ state' = IF part \in snapshot.shared THEN st ELSE state
    /\ entered' = entered \cup ({state'.stage} \cap Phases)
    /\ visited' = Advance(visited, state'.stage)
    /\ UNCHANGED <<impl, config, now, last, pending, twin>>

\* snapshot.stage = stage, for the stage a caller gains most by: the first
\* one and the approved one
SnapshotStages == {"draft", "executed"}

SnapshotSetStage ==
    \E stage \in SnapshotStages :
        CallerWrite("state", [state EXCEPT !.stage = stage])

\* snapshot.voting.votes.push(vote)
SnapshotPushVote ==
    \E vote \in VotingVotes :
        CallerWrite("voting", [state EXCEPT !.voting[1].votes = Append(@, vote)])

\* snapshot.temperatureCheck.votes.length = 0, snapshot.voting.votes.length = 0
SnapshotClearVotes ==
    \/ CallerWrite("temperatureCheck",
                   [state EXCEPT !.temperatureCheck[1].votes = <<>>])
    \/ CallerWrite("voting", [state EXCEPT !.voting[1].votes = <<>>])

\* snapshot.voting.result = {approved: true, support: 1, quorumReached: true}
SnapshotOverwriteResult ==
    CallerWrite("voting",
                [state EXCEPT
                 !.voting[1].result =
                     Some([approved |-> TRUE, support |-> Number(1),
                           quorumReached |-> TRUE])])

NextSnapshot ==
    \/ Next
    \/ GetState
    \/ SnapshotSetStage
    \/ SnapshotPushVote
    \/ SnapshotClearVotes
    \/ SnapshotOverwriteResult

\* a workflow and a caller that keeps what getState returned
SpecSnapshot == Init /\ [][NextSnapshot]_vars

\* a caller that does not await its calls; the draft has a poll, without
\* which no temperature check is started and no call reaches the await
InitAsync ==
    /\ impl \in Impls
    /\ config \in Configs
    /\ state = constructor(TRUE, FALSE)
    /\ now = 0
    /\ last = [op |-> "constructor", ok |-> TRUE, err |-> "", arg |-> NoArg]
    /\ entered = {}
    /\ visited = Advance(0, "draft")
    /\ snapshot = NoSnapshot
    /\ pending = [concurrent |-> TRUE, calls |-> {}]
    /\ twin = None

\* a suspended call is resumed
Resume ==
    \E op \in pending.calls :
        /\ state' = AfterAwait(impl, op, config, state, now)
        /\ pending' = [pending EXCEPT !.calls = @ \ {op}]
        /\ entered' = entered \cup ({state'.stage} \cap Phases)
        /\ visited' = Advance(visited, state'.stage)
        /\ UNCHANGED <<impl, config, now, last, snapshot, twin>>

NextAsync ==
    \/ Next
    \/ Resume

SpecAsync == InitAsync /\ [][NextAsync]_vars

\* the state in stage final_proposal of a workflow that was taken there on
\* day 0 by startTemperatureCheck, startDiscussion, finalizeDiscussion
FinalProposalState(i, cfg) ==
    LET drafted == constructor(TRUE, FALSE)
        checking == startTemperatureCheck(i, cfg, drafted, 0).st
        discussing == startDiscussion(i, cfg, checking, 0).st
    IN  finalizeDiscussion(i, cfg, discussing, 0).st

\* a workflow of workflow.ts and a workflow of part_004 with the same
\* configuration, both in stage final_proposal
InitEquivalence ==
    /\ impl = "workflow"
    /\ config \in Configs
    /\ state = FinalProposalState("workflow", config)
    /\ twin = Some(FinalProposalState("part_004", config))
    /\ now = 0
    /\ last = [op |-> "finalizeDiscussion", ok |-> TRUE, err |-> "",
               arg |-> NoArg]
    /\ entered = {"temperature_check", "discussion"}
    /\ visited = Len(StageOrder)
    /\ snapshot = NoSnapshot
    /\ pending = NoPending

\* the calls of the voting phase, made on both workflows
NextEquivalence ==
    \/ StartVoting
    \/ SubmitVote
    \/ FinalizeVoting
    \/ Tick

SpecEquivalence == InitEquivalence /\ [][NextEquivalence]_vars

(* ------------------------------ properties ---------------------------- *)

Terminal == {"executed", "rejected"}

\* a step that is a call (time stands still during a call)
IsCall == now' = now

\* every call a caller can make in the current state, with its outcome
AllCalls ==
    {[op |-> "startTemperatureCheck",
      r |-> startTemperatureCheck(impl, config, state, now)],
     [op |-> "finalizeTemperatureCheck",
      r |-> finalizeTemperatureCheck(impl, config, state, now)],
     [op |-> "startDiscussion",
      r |-> startDiscussion(impl, config, state, now)],
     [op |-> "finalizeDiscussion",
      r |-> finalizeDiscussion(impl, config, state, now)],
     [op |-> "startVoting", r |-> startVoting(impl, config, state, now)],
     [op |-> "finalizeVoting",
      r |-> finalizeVoting(impl, config, state, now)]}
    \cup {[op |-> "submitTemperatureCheckVote",
           r |-> submitTemperatureCheckVote(impl, config, state, now, v)] :
          v \in TemperatureCheckVotes}
    \cup {[op |-> "submitVote",
           r |-> submitVote(impl, config, state, now, v)] : v \in VotingVotes}
    \cup {[op |-> "addDiscussionComment",
           r |-> addDiscussionComment(impl, config, state, now, a, c)] :
          a \in Authors, c \in Contents}

\* sums over a vote list, by position
RECURSIVE SumOver(_, _)
SumOver(S, f) ==
    IF S = {} THEN 0
    ELSE LET x == CHOOSE y \in S : TRUE IN f[x] + SumOver(S \ {x}, f)

TotalOf(votes) ==
    SumOver(DOMAIN votes, [k \in DOMAIN votes |-> votes[k].weight])

WeightOf(votes, labels) ==
    SumOver(DOMAIN votes,
            [k \in DOMAIN votes |->
                IF votes[k].choice \in labels THEN votes[k].weight ELSE 0])

\* the number r is the quotient a / b
IsQuotient(r, a, b) == b > 0 /\ r.den > 0 /\ r.num * b = a * r.den

\* the quotient a / b exists and is at least the number t
QuotientAtLeast(a, b, t) == b > 0 /\ a * t.den >= t.num * b

TemperatureCheckRecord == The(state.temperatureCheck)
DiscussionRecord == The(state.discussion)
VotingRecord == The(state.voting)

\* C1 (stated as claimed): every change of stage is one of the edges of the
\* lifecycle, made by the operation that the edge names; the stage never
\* moves back.
LegalTransitions ==
    {<<"draft", "startTemperatureCheck", "temperature_check">>,
     <<"temperature_check", "finalizeTemperatureCheck", "discussion">>,
     <<"temperature_check", "finalizeTemperatureCheck", "rejected">>,
     <<"temperature_check", "startDiscussion", "discussion">>,
     <<"discussion", "finalizeDiscussion", "final_proposal">>,
     <<"final_proposal", "startVoting", "voting">>,
     <<"voting", "finalizeVoting", "executed">>,
     <<"voting", "finalizeVoting", "rejected">>}

C1_OnlyLegalTransitions ==
    [][state'.stage # state.stage =>
         <<state.stage, last'.op, state'.stage>> \in LegalTransitions]_vars

\* C2 (stated as claimed): in stage executed or rejected every operation
\* fails and leaves the stage as it is.
C2_TerminalStagesAbsorb ==
    state.stage \in Terminal =>
        \A c \in AllCalls : ~c.r.ok /\ c.r.st.stage = state.stage

\* C3 (stated as claimed): a phase-starting operation called in a stage other
\* than the one it requires fails and leaves the whole state unchanged.
RequiredStage ==
    [op \in {"startTemperatureCheck", "startDiscussion", "startVoting"} |->
        CASE op = "startTemperatureCheck" -> "draft"
          [] op = "startDiscussion" -> "temperature_check"
          [] op = "startVoting" -> "final_proposal"]

C3_StartInWrongStageFails ==
    \A c \in AllCalls :
        (c.op \in DOMAIN RequiredStage /\ state.stage # RequiredStage[c.op])
            => (~c.r.ok /\ c.r.st = state)

\* Scenario A of the specification: 10 votes of weight 1, 6 of them
\* "Support", minimumQuorum 5, approvalThreshold 0.5
ScenarioAVotes ==
    [k \in 1..10 |-> Vote(IF k <= 6 THEN "Support" ELSE "Against", 1)]

ScenarioAConfig ==
    [temperatureCheckDuration |-> 3, discussionPeriod |-> 5,
     votingPeriod |-> 7, minimumQuorum |-> 5, approvalThreshold |-> Half,
     governanceConfig |-> None]

ScenarioAState ==
    [constructor(TRUE, FALSE) EXCEPT
     !.stage = "voting",
     !.voting = Some([votes |-> ScenarioAVotes, startTime |-> 0,
                      endTime |-> 7, result |-> None])]

\* C4: after finalizeVoting the stored result has quorumReached = (total
\* weight >= minimumQuorum), support = (weight of the "Support" votes) /
\* (total weight), approved = quorumReached and support >= approvalThreshold,
\* and the stage is executed if approved and rejected if not; the votes of
\* scenario A end in executed. (With a total weight of 0 the quotient does
\* not exist and the comparison with the threshold is false.)
C4_FinalizeVotingResult ==
    /\ (last.op = "finalizeVoting" /\ last.ok) =>
          /\ Has(state.voting) /\ Has(VotingRecord.result)
          /\ LET votes == VotingRecord.votes
                 result == The(VotingRecord.result)
                 total == TotalOf(votes)
                 support == WeightOf(votes, {"Support"})
             IN  /\ result.quorumReached = (total >= config.minimumQuorum)
                 /\ total > 0 => IsQuotient(result.support, support, total)
                 /\ result.approved =
                        (/\ total >= config.minimumQuorum
                         /\ QuotientAtLeast(support, total,
                                            config.approvalThreshold))
                 /\ state.stage =
                        IF result.approved THEN "executed" ELSE "rejected"
    /\ \A i \in Impls :
          LET r == finalizeVoting(i, ScenarioAConfig, ScenarioAState, 0)
          IN  /\ r.ok /\ r.st.stage = "executed"
              /\ The(The(r.st.voting).result) =
                     [approved |-> TRUE, support |-> Div(6, 10),
                      quorumReached |-> TRUE]

\* C4's case: a vote of two ballots that reached the quorum of 2 and passed
C4_Witness ==
    /\ last.op = "finalizeVoting" /\ last.ok
    /\ state.stage = "executed"
    /\ config.minimumQuorum = 2
    /\ Len(VotingRecord.votes) = 2
    /\ The(VotingRecord.result).approved

\* C5 (stated as claimed): when the total recorded weight is 0, finalizeVoting
\* stores the number 0 as support, approved is false and the stage becomes
\* rejected.
C5_ZeroWeightSupportIsZero ==
    (/\ last.op = "finalizeVoting" /\ last.ok
     /\ TotalOf(VotingRecord.votes) = 0)
        => /\ The(VotingRecord.result).support = Number(0)
           /\ ~The(VotingRecord.result).approved
           /\ state.stage = "rejected"

\* C6: in stage voting, submitVote called after voting.endTime fails and
\* leaves the state (so the vote list) unchanged; called at or before endTime
\* it appends exactly the given vote at the end of the list.
SubmitVoteStep ==
    (state.stage = "voting" /\ IsCall /\ last'.op = "submitVote") =>
        IF now > VotingRecord.endTime
        THEN ~last'.ok /\ state' = state
        ELSE /\ last'.ok
             /\ state' = [state EXCEPT
                          !.voting[1].votes = Append(@, last'.arg[1])]

C6_SubmitVoteWindow == [][SubmitVoteStep]_vars

\* C6's case: a vote was recorded in time and a later one was thrown out
C6_Witness ==
    /\ last.op = "submitVote" /\ ~last.ok
    /\ state.stage = "voting"
    /\ now > VotingRecord.endTime
    /\ Len(VotingRecord.votes) >= 1

\* C7 (stated as claimed): in stage temperature_check,
\* submitTemperatureCheckVote called after temperatureCheck.endTime fails and
\* leaves the vote list unchanged.
LateTemperatureCheckVoteStep ==
    (/\ state.stage = "temperature_check"
     /\ IsCall /\ last'.op = "submitTemperatureCheckVote"
     /\ now > TemperatureCheckRecord.endTime)
        => (~last'.ok /\ state'.temperatureCheck = state.temperatureCheck)

C7_LateTemperatureCheckVoteFails == [][LateTemperatureCheckVoteStep]_vars

\* C8: addDiscussionComment succeeds only in stage discussion at or before
\* discussion.endTime, and then appends the one comment {author, content,
\* timestamp = now}; in another stage, or after endTime, it fails and leaves
\* the state (so the comment list) unchanged.
CommentOutsideDiscussionFails ==
    \A a \in Authors, c \in Contents :
        LET r == addDiscussionComment(impl, config, state, now, a, c)
        IN  /\ r.ok => /\ state.stage = "discussion"
                       /\ Has(state.discussion)
                       /\ now <= DiscussionRecord.endTime
            /\ state.stage # "discussion" => (~r.ok /\ r.st = state)

AddDiscussionCommentStep ==
    (state.stage = "discussion" /\ IsCall
     /\ last'.op = "addDiscussionComment") =>
        IF now > DiscussionRecord.endTime
        THEN ~last'.ok /\ state' = state
        ELSE /\ last'.ok
             /\ state' = [state EXCEPT
                          !.discussion[1].comments =
                              Append(@, [author |-> last'.arg[1],
                                         content |-> last'.arg[2],
                                         timestamp |-> now])]

C8_AddDiscussionComment ==
    []CommentOutsideDiscussionFails /\ [][AddDiscussionCommentStep]_vars

\* C8's case: a comment was recorded in time and a later one was thrown out
C8_Witness ==
    /\ last.op = "addDiscussionComment" /\ ~last.ok
    /\ state.stage = "discussion"
    /\ now > DiscussionRecord.endTime
    /\ Len(DiscussionRecord.comments) >= 1

\* C9: startTemperatureCheck called in stage draft fails on a draft without a
\* poll, leaving the state unchanged (stage draft, no record created), and on
\* a draft with a poll moves to temperature_check with an empty vote list, no
\* result and endTime = now + temperatureCheckDuration.
StartTemperatureCheckStep ==
    (state.stage = "draft" /\ IsCall
     /\ last'.op = "startTemperatureCheck") =>
        IF state.poll
        THEN /\ last'.ok
             /\ state' =
                  [state EXCEPT
                   !.stage = "temperature_check",
                   !.temperatureCheck =
                       Some([votes |-> <<>>,
                             endTime |-> now + config.temperatureCheckDuration,
                             result |-> None])]
        ELSE ~last'.ok /\ state' = state

C9_StartTemperatureCheck == [][StartTemperatureCheckStep]_vars

\* C9's case: the call failed on a draft without a poll
C9_Witness ==
    /\ last.op = "startTemperatureCheck" /\ ~last.ok
    /\ state.stage = "draft"
    /\ ~state.poll
    /\ ~Has(state.temperatureCheck)

\* C10 (stated as claimed): the fractions finalizeTemperatureCheck stores are
\* the weight of each bucket divided by the total recorded weight.
C10_TemperatureCheckByWeight ==
    (/\ last.op = "finalizeTemperatureCheck" /\ last.ok
     /\ TotalOf(TemperatureCheckRecord.votes) > 0)
        => LET votes == TemperatureCheckRecord.votes
               result == The(TemperatureCheckRecord.result)
               total == TotalOf(votes)
           IN  /\ IsQuotient(result.support,
                             WeightOf(votes, {"Strongly Support",
                                              "Support with Minor Changes"}),
                             total)
               /\ IsQuotient(result.opposition,
                             WeightOf(votes, {"Do Not Support"}), total)
               /\ IsQuotient(result.needsDiscussion,
                             WeightOf(votes, {"Need More Discussion"}), total)

\* finalizeTemperatureCheck was the last call, and the support it stored
TemperatureCheckDone == last.op = "finalizeTemperatureCheck" /\ last.ok

StoredSupport == The(TemperatureCheckRecord.result).support

\* C11 (stated as claimed): finalizeTemperatureCheck moves to discussion when
\* the support it computed is above 0.5 and to rejected in every other case,
\* whatever needsDiscussion is; a workflow with a stored support of at most
\* 0.5 never has a discussion record.
C11_BinaryRule ==
    /\ TemperatureCheckDone =>
          state.stage = IF Greater(StoredSupport, Half)
                        THEN "discussion" ELSE "rejected"
    /\ (/\ Has(state.temperatureCheck)
        /\ Has(TemperatureCheckRecord.result)
        /\ ~Greater(StoredSupport, Half)) => ~Has(state.discussion)

\* C12 (stated as claimed): finalizeTemperatureCheck on an empty vote list
\* stores the numbers 0, 0, 0 as support, opposition and needsDiscussion, and
\* moves to rejected.
C12_EmptyTemperatureCheck ==
    (TemperatureCheckDone /\ TemperatureCheckRecord.votes = <<>>)
        => /\ The(TemperatureCheckRecord.result) =
                  [support |-> Number(0), opposition |-> Number(0),
                   needsDiscussion |-> Number(0)]
           /\ state.stage = "rejected"

\* C13 (stated as claimed): a finalizeTemperatureCheck that computes a support
\* above 0.5 starts the discussion at once: the stage is discussion, there is
\* a discussion record with no comment and endTime = (time of the call) +
\* discussionPeriod, and addDiscussionComment succeeds up to that endTime.
FinalizeIntoDiscussionStep ==
    (/\ state.stage = "temperature_check"
     /\ IsCall /\ last'.op = "finalizeTemperatureCheck" /\ last'.ok
     /\ Greater(The(The(state'.temperatureCheck).result).support, Half))
        => /\ state'.stage = "discussion"
           /\ state'.discussion =
                  Some([comments |-> <<>>,
                        endTime |-> now + config.discussionPeriod])
           /\ \A t \in now .. now + config.discussionPeriod :
                  \A a \in Authors, c \in Contents :
                      addDiscussionComment(impl, config, state', t, a, c).ok

C13_DiscussionStartsAtOnce == [][FinalizeIntoDiscussionStep]_vars

\* C14 (stated as claimed): in every reachable state the record of a phase
\* exists exactly when the stage has been that phase at least once.
C14_RecordIffEntered ==
    /\ Has(state.temperatureCheck) <=> "temperature_check" \in entered
    /\ Has(state.discussion) <=> "discussion" \in entered
    /\ Has(state.voting) <=> "voting" \in entered

TemperatureCheckHasResult(st) ==
    Has(st.temperatureCheck) /\ Has(The(st.temperatureCheck).result)

VotingHasResult(st) == Has(st.voting) /\ Has(The(st.voting).result)

\* C15 (stated as claimed): a result appears exactly when its finalize
\* operation completes, and a stored result is never changed or removed, nor
\* is the record that holds it replaced.
ResultWriteOnceStep ==
    /\ TemperatureCheckHasResult(state) =>
           state'.temperatureCheck = state.temperatureCheck
    /\ VotingHasResult(state) => state'.voting = state.voting
    /\ (~TemperatureCheckHasResult(state) /\ IsCall) =>
           (TemperatureCheckHasResult(state') <=>
                (last'.op = "finalizeTemperatureCheck" /\ last'.ok))
    /\ (~VotingHasResult(state) /\ IsCall) =>
           (VotingHasResult(state') <=>
                (last'.op = "finalizeVoting" /\ last'.ok))

C15_ResultWriteOnce ==
    /\ ~TemperatureCheckHasResult(state) /\ ~VotingHasResult(state)
    /\ [][ResultWriteOnceStep]_vars

\* the list `old` is the beginning of the list `new`
IsPrefix(old, new) ==
    /\ Len(old) <= Len(new)
    /\ \A k \in DOMAIN old : new[k] = old[k]

\* C16 (stated as claimed): the vote lists only grow at their end: after a
\* step every vote recorded before it is in the same list, at the same
\* position and unmodified.
AppendOnlyStep ==
    /\ Has(state.temperatureCheck) =>
           /\ Has(state'.temperatureCheck)
           /\ IsPrefix(The(state.temperatureCheck).votes,
                       The(state'.temperatureCheck).votes)
    /\ Has(state.voting) =>
           /\ Has(state'.voting)
           /\ IsPrefix(The(state.voting).votes, The(state'.voting).votes)

C16_VoteListsAppendOnly == [][AppendOnlyStep]_vars

\* some voter has more than one vote in the list
SameVoterTwice(votes) ==
    \E j, k \in DOMAIN votes : j # k /\ votes[j].voter = votes[k].voter

\* a submit call made in its phase, not after the end time, appends the vote
\* whoever the voter is
SubmitAppendsStep ==
    /\ (/\ state.stage = "temperature_check" /\ Has(state.temperatureCheck)
        /\ IsCall /\ last'.op = "submitTemperatureCheckVote"
        /\ now <= TemperatureCheckRecord.endTime)
           => /\ last'.ok
              /\ The(state'.temperatureCheck).votes =
                     Append(TemperatureCheckRecord.votes, last'.arg[1])
    /\ (/\ state.stage = "voting" /\ Has(state.voting)
        /\ IsCall /\ last'.op = "submitVote"
        /\ now <= VotingRecord.endTime)
           => /\ last'.ok
              /\ The(state'.voting).votes =
                     Append(VotingRecord.votes, last'.arg[1])

\* every vote of a voter who voted more than once is in the tally with its
\* weight
SameVoterVotesAllCount ==
    /\ (/\ TemperatureCheckDone
        /\ SameVoterTwice(TemperatureCheckRecord.votes)
        /\ TotalOf(TemperatureCheckRecord.votes) > 0)
           => LET votes == TemperatureCheckRecord.votes
                  result == The(TemperatureCheckRecord.result)
              IN  /\ IsQuotient(result.support,
                                WeightOf(votes,
                                         {"Strongly Support",
                                          "Support with Minor Changes"}),
                                TotalOf(votes))
                  /\ IsQuotient(result.opposition,
                                WeightOf(votes, {"Do Not Support"}),
                                TotalOf(votes))
                  /\ IsQuotient(result.needsDiscussion,
                                WeightOf(votes, {"Need More Discussion"}),
                                TotalOf(votes))
    /\ (/\ last.op = "finalizeVoting" /\ last.ok
        /\ SameVoterTwice(VotingRecord.votes)
        /\ TotalOf(VotingRecord.votes) > 0)
           => LET votes == VotingRecord.votes
                  result == The(VotingRecord.result)
              IN  /\ IsQuotient(result.support,
                                WeightOf(votes, {"Support"}), TotalOf(votes))
                  /\ result.quorumReached =
                         (TotalOf(votes) >= config.minimumQuorum)

\* C17 (stated as claimed): votes are not de-duplicated by voter: several
\* votes of one voter submitted in a phase before its end time are all
\* appended, and each of them is in the tally of the finalization with its
\* weight.
C17_NoDeduplication ==
    []SameVoterVotesAllCount /\ [][SubmitAppendsStep]_vars

\* the draft is flagged critical and the configuration has a governanceConfig
CriticalGovernance == state.critical /\ Has(config.governanceConfig)

\* C18 (stated as claimed): for a critical draft under a governanceConfig,
\* finalizeVoting compares the total weight with highQuorum instead of
\* minimumQuorum: below highQuorum the quorum is not reached and the stage
\* becomes rejected.
C18_HighQuorumForCritical ==
    (last.op = "finalizeVoting" /\ last.ok /\ CriticalGovernance)
        => LET total == TotalOf(VotingRecord.votes)
               highQuorum == The(config.governanceConfig).highQuorum
           IN  /\ The(VotingRecord.result).quorumReached =
                      (total >= highQuorum)
               /\ total < highQuorum => state.stage = "rejected"

\* C19 (stated as claimed): getState has copy semantics: what a caller writes
\* into the object it was given changes nothing of the workflow's state (so
\* nothing of what getState and getCurrentStage return later, and nothing of
\* the outcome of later operations).
CallerWriteStep == snapshot'.writes # snapshot.writes => state' = state

C19_GetStateCopies == [][CallerWriteStep]_vars

\* C20 (stated as claimed): startVoting in stage final_proposal moves to
\* voting with a new voting record: no vote, no result, startTime = now and
\* endTime = now + votingPeriod, or now + extendedVotingPeriod for a critical
\* draft under a governanceConfig; nothing else of the state changes.
StartVotingStep ==
    (state.stage = "final_proposal" /\ IsCall /\ last'.op = "startVoting")
        => /\ last'.ok
           /\ state' =
                [state EXCEPT
                 !.stage = "voting",
                 !.voting =
                     Some([votes |-> <<>>, startTime |-> now,
                           endTime |->
                               now + (IF CriticalGovernance
                                      THEN The(config.governanceConfig)
                                               .extendedVotingPeriod
                                      ELSE config.votingPeriod),
                           result |-> None])]

C20_StartVoting == [][StartVotingStep]_vars

\* a phase whose end time has passed can still be finalized
ExpiredFinalizeSucceeds ==
    /\ (/\ state.stage = "temperature_check" /\ Has(state.temperatureCheck)
        /\ now > TemperatureCheckRecord.endTime)
           => LET r == finalizeTemperatureCheck(impl, config, state, now)
              IN  r.ok /\ Has(The(r.st.temperatureCheck).result)
    /\ (/\ state.stage = "discussion" /\ Has(state.discussion)
        /\ now > DiscussionRecord.endTime)
           => LET r == finalizeDiscussion(impl, config, state, now)
              IN  r.ok /\ r.st.stage = "final_proposal"
    /\ (/\ state.stage = "voting" /\ Has(state.voting)
        /\ now > VotingRecord.endTime)
           => LET r == finalizeVoting(impl, config, state, now)
              IN  r.ok /\ r.st.stage \in Terminal
                  /\ Has(The(r.st.voting).result)

\* a step in which time passes changes nothing of the state, and the stage
\* changes only in a call that returned
OnlyCallsChangeStateStep ==
    /\ now' # now => state' = state
    /\ state'.stage # state.stage => (IsCall /\ last'.ok)

ResultsCountEveryVote ==
    /\ TemperatureCheckHasResult(state) =>
           The(TemperatureCheckRecord.result) =
               TemperatureCheckResult(impl, TemperatureCheckRecord.votes)
    /\ VotingHasResult(state) =>
           The(VotingRecord.result) = VotingResult(config, VotingRecord.votes)

\* the resumption of a suspended call writes nothing, and every change of the
\* state is the whole effect of one operation on the state before it
AtomicStep ==
    /\ (pending'.calls # pending.calls /\ pending'.calls \subseteq pending.calls)
           => state' = state
    /\ state' # state => \E c \in AllCalls : c.r.ok /\ state' = c.r.st

\* C22: every operation is atomic although it is async: its stage check and
\* all its writes are made before its first suspension, so calls that are not
\* awaited give the state of the same calls made one after another, and no
\* vote is recorded after the result that should have counted it.
C22_OperationsAreAtomic ==
    []ResultsCountEveryVote /\ [][AtomicStep]_vars

\* C22's case: finalizeTemperatureCheck is suspended at its await and another
\* call has been made meanwhile
C22_Witness ==
    /\ "finalizeTemperatureCheck" \in pending.calls
    /\ state.stage = "discussion"
    /\ last.op = "addDiscussionComment" /\ last.ok
    /\ Has(TemperatureCheckRecord.result)

\* C23 (stated as claimed): the two thresholds differ at their boundary: a
\* vote whose support ratio equals approvalThreshold, with the quorum reached,
\* is approved and the stage becomes executed; a temperature check whose
\* support equals 0.5 does not pass and the stage becomes rejected.
C23_ThresholdBoundaries ==
    /\ (/\ last.op = "finalizeVoting" /\ last.ok
        /\ TotalOf(VotingRecord.votes) > 0
        /\ TotalOf(VotingRecord.votes) >= config.minimumQuorum
        /\ WeightOf(VotingRecord.votes, {"Support"})
               * config.approvalThreshold.den
           = config.approvalThreshold.num * TotalOf(VotingRecord.votes))
           => /\ The(VotingRecord.result).approved
              /\ state.stage = "executed"
    /\ (TemperatureCheckDone /\ StoredSupport = Half)
           => state.stage = "rejected"

\* votes whose choice is not the label "Support": another label, the label in
\* lower case, a label of the temperature check
OtherVotes ==
    {Vote(c, w) : c \in {"Against", "support", "Strongly Support"},
                  w \in Weights}

\* C24: finalizeVoting counts every recorded vote in the total weight (the
\* quorum and the denominator of the support ratio) whatever its choice is,
\* and only the votes whose choice is exactly "Support" in the support weight:
\* one more vote with another choice adds its weight to the total and nothing
\* to the support, so it can only help the quorum and lower the ratio.
C24_OnlySupportCounts ==
    /\ (last.op = "finalizeVoting" /\ last.ok) =>
          LET votes == VotingRecord.votes
              result == The(VotingRecord.result)
          IN  /\ result.quorumReached =
                     (TotalOf(votes) >= config.minimumQuorum)
              /\ TotalOf(votes) > 0 =>
                     IsQuotient(result.support, WeightOf(votes, {"Support"}),
                                TotalOf(votes))
    /\ (state.stage = "voting" /\ Has(state.voting)
        /\ now <= VotingRecord.endTime) =>
          \A v \in OtherVotes :
              LET votes == VotingRecord.votes
                  submitted == submitVote(impl, config, state, now, v)
                  before == finalizeVoting(impl, config, state, now)
                  after == finalizeVoting(impl, config, submitted.st, now)
                  was == The(The(before.st.voting).result)
                  is == The(The(after.st.voting).result)
              IN  /\ submitted.ok /\ before.ok /\ after.ok
                  /\ is.quorumReached =
                         (TotalOf(votes) + v.weight >= config.minimumQuorum)
                  /\ was.quorumReached => is.quorumReached
                  /\ TotalOf(votes) + v.weight > 0 =>
                         IsQuotient(is.support, WeightOf(votes, {"Support"}),
                                    TotalOf(votes) + v.weight)
                  /\ ~Greater(is.support, was.support)

\* C24's case: a vote that is not "Support" made the quorum of 2 and brought
\* the ratio under the threshold
C24_Witness ==
    /\ last.op = "finalizeVoting" /\ last.ok
    /\ config.minimumQuorum = 2
    /\ VotingRecord.votes = <<Vote("Support", 1), Vote("Against", 2)>>
    /\ The(VotingRecord.result) =
           [approved |-> FALSE, support |-> Div(1, 3), quorumReached |-> TRUE]
    /\ state.stage = "rejected"

\* C25: finalizeDiscussion called in stage discussion moves to final_proposal
\* unconditionally, before and after discussion.endTime and whatever the
\* number of comments; it stores no result and changes nothing else: the
\* comments, the temperatureCheck record and its result stay as they are.
C25_FinalizeDiscussion ==
    state.stage = "discussion" =>
        LET r == finalizeDiscussion(impl, config, state, now)
        IN  /\ r.ok
            /\ r.st = [state EXCEPT !.stage = "final_proposal"]

\* C25's case: a discussion with a comment was finalized before its end time
C25_Witness ==
    /\ last.op = "finalizeDiscussion" /\ last.ok
    /\ state.stage = "final_proposal"
    /\ Has(state.discussion)
    /\ Len(DiscussionRecord.comments) = 1
    /\ now < DiscussionRecord.endTime
    /\ TemperatureCheckHasResult(state)

\* every call a caller can make on the state `st` at time `t`
CallsIn(i, cfg, st, t) ==
    {startTemperatureCheck(i, cfg, st, t),
     finalizeTemperatureCheck(i, cfg, st, t),
     startDiscussion(i, cfg, st, t), finalizeDiscussion(i, cfg, st, t),
     startVoting(i, cfg, st, t), finalizeVoting(i, cfg, st, t)}
    \cup {submitTemperatureCheckVote(i, cfg, st, t, v) :
          v \in TemperatureCheckVotes}
    \cup {submitVote(i, cfg, st, t, v) : v \in VotingVotes}
    \cup {addDiscussionComment(i, cfg, st, t, a, c) :
          a \in Authors, c \in Contents}

\* some sequence of at most n calls that return leads from `st` to a terminal
\* stage
RECURSIVE CanEnd(_, _)
CanEnd(st, n) ==
    \/ st.stage \in Terminal
    \/ /\ n > 0
       /\ \E r \in CallsIn(impl, config, st, now) :
              r.ok /\ r.st # st /\ CanEnd(r.st, n - 1)

\* C26 (stated as claimed): from every reachable state that is not terminal
\* some sequence of operations leads to executed or rejected (the longest
\* way, from draft, has four stages to go through); no workflow is in a state
\* where every operation fails; a draft without a poll leaves draft through
\* startDiscussion.
C26_NeverStuck ==
    state.stage \notin Terminal =>
        /\ \E r \in CallsIn(impl, config, state, now) : r.ok
        /\ (state.stage = "draft" /\ ~state.poll) =>
               LET r == startDiscussion(impl, config, state, now)
               IN  r.ok /\ r.st.stage = "discussion"
        /\ CanEnd(state, 5)

\* C27 (stated as claimed): whenever the stage is voting or executed, or
\* rejected with a voting record, the workflow has been in draft, then in
\* temperature_check, then in discussion, then in final_proposal.
C27_VotingAfterEveryStage ==
    (\/ state.stage \in {"voting", "executed"}
     \/ state.stage = "rejected" /\ Has(state.voting))
        => visited = Len(StageOrder)

\* C28 (stated as claimed): in every reachable state whose stage is
\* discussion, final_proposal, voting or executed, temperatureCheck.result
\* exists and its support is above 0.5.
C28_PassedTemperatureCheck ==
    state.stage \in {"discussion", "final_proposal", "voting", "executed"}
        => /\ TemperatureCheckHasResult(state)
           /\ Greater(StoredSupport, Half)

\* C29 (stated as claimed): in every reachable state where voting.result
\* exists, the stored approved, support and quorumReached are the values
\* recomputed from the recorded votes and the configuration (so no vote was
\* recorded after finalizeVoting), and the stage is executed exactly when
\* approved is true.
C29_OutcomeAgreesWithVotes ==
    VotingHasResult(state) =>
        LET votes == VotingRecord.votes
            result == The(VotingRecord.result)
            total == TotalOf(votes)
            support == WeightOf(votes, {"Support"})
        IN  /\ result.quorumReached = (total >= config.minimumQuorum)
            /\ total > 0 => IsQuotient(result.support, support, total)
            /\ result.approved =
                   (/\ total >= config.minimumQuorum
                    /\ QuotientAtLeast(support, total,
                                       config.approvalThreshold))
            /\ (state.stage = "executed") <=> result.approved

\* the calls of the voting phase that can be made in a state: the name of
\* the operation and its arguments
VotingPhaseCalls ==
    {<<"startVoting", NoArg>>, <<"finalizeVoting", NoArg>>}
        \cup {<<"submitVote", <<v>>>> : v \in VotingVotes}

\* the two workflows are in the same stage with the same voting record
SameVotingPhase(a, b) ==
    /\ a.stage = b.stage
    /\ a.voting = b.voting

=============================================================================
